---- MODULE Spec2Model ----
(***************************************************************************)
(* SecureWorkspace: snapshot of the home directory at start(), three-way   *)
(* reconciliation (new / modified / deleted) with interactive preservation *)
(* at stop().  Model of src/secure_workspace.py (src/start_session.py and  *)
(* src/stop_session.py are copies of start() and stop()).                  *)
(*                                                                         *)
(* Paths are strings, as in the code, and the path functions (split,       *)
(* startswith, lower, relpath, dirname, join) work on their characters.    *)
(* The home directory holds no symbolic links and the scratch directories  *)
(* of tempfile.mkdtemp() and STATE_FILE live outside it (in /tmp).         *)
(***************************************************************************)
EXTENDS Integers, Sequences, FiniteSets, TLC

(* ------------------------------ bounds --------------------------------- *)
\* number of distinct file contents the user can write
MaxContent == 2
\* number of things the user does in one behaviour: edits and start() calls
\* (stop() calls are not counted)
MaxTurns == 3

(* --------------------------- program constants ------------------------- *)
STATE_FILE == "/tmp/.secure_workspace_state"

EXCLUDED_PATHS == <<"/proc", "/sys", "/dev", "/run", "/tmp", "/var/log">>

EXCLUDED_PATTERNS ==
    << ".git", ".svn", ".hg",
       "__pycache__", ".pyc", ".pyo", ".pyd", ".pytest_cache", ".coverage", ".eggs",
       "node_modules", "npm-debug.log", "yarn-debug.log", "yarn-error.log",
       ".idea", ".vscode", ".vs", "*.swp", "*.swo", ".DS_Store", "Thumbs.db",
       "build", "dist", "*.egg-info",
       ".secure_workspace_state",
       "SingletonSocket", ".Xauthority", ".X11-unix", ".cache",
       ".local/share/Trash", ".mozilla/firefox/*.default/Cache",
       ".npm", ".yarn", ".pip", ".gradle", ".m2",
       "Cache", "CacheStorage", ".config/google-chrome/Default/Cache",
       ".config/chromium/Default/Cache", ".mozilla/firefox/*.default/cache2" >>

\* os.path.expanduser('~')
Home == "/home/u"

(* ------------------------------ the paths ------------------------------ *)
Notes    == "/home/u/notes.txt"
Docs     == "/home/u/docs"
DocsB    == "/home/u/docs/b.txt"
Build    == "/home/u/build"
BuildOut == "/home/u/build/out.o"

\* every node of the home directory that the model follows
Nodes == {Notes, Docs, DocsB, Build, BuildOut}

(* --------------------------- string functions -------------------------- *)
\* str.startswith
StartsWith(s, pre) ==
    /\ Len(pre) <= Len(s)
    /\ (Len(pre) = 0 \/ SubSeq(s, 1, Len(pre)) = pre)

\* str.endswith
EndsWith(s, suf) ==
    /\ Len(suf) <= Len(s)
    /\ (Len(suf) = 0 \/ SubSeq(s, Len(s) - Len(suf) + 1, Len(s)) = suf)

\* the `in` operator on two strings
Contains(s, sub) ==
    \/ Len(sub) = 0
    \/ \E i \in 1..(Len(s) - Len(sub) + 1) : SubSeq(s, i, i + Len(sub) - 1) = sub

\* one character of str.lower()
LowerChar(c) ==
    CASE c = "A" -> "a" [] c = "B" -> "b" [] c = "C" -> "c" [] c = "D" -> "d"
      [] c = "E" -> "e" [] c = "F" -> "f" [] c = "G" -> "g" [] c = "H" -> "h"
      [] c = "I" -> "i" [] c = "J" -> "j" [] c = "K" -> "k" [] c = "L" -> "l"
      [] c = "M" -> "m" [] c = "N" -> "n" [] c = "O" -> "o" [] c = "P" -> "p"
      [] c = "Q" -> "q" [] c = "R" -> "r" [] c = "S" -> "s" [] c = "T" -> "t"
      [] c = "U" -> "u" [] c = "V" -> "v" [] c = "W" -> "w" [] c = "X" -> "x"
      [] c = "Y" -> "y" [] c = "Z" -> "z" [] OTHER -> c

RECURSIVE Lower(_)
\* str.lower
Lower(s) == IF Len(s) = 0 THEN s ELSE LowerChar(Head(s)) \o Lower(Tail(s))

RECURSIVE SplitFrom(_, _, _)
\* str.split(sep) for a one-character sep, with the part read so far in acc
SplitFrom(s, sep, acc) ==
    IF Len(s) = 0 THEN <<acc>>
    ELSE IF Head(s) = sep THEN <<acc>> \o SplitFrom(Tail(s), sep, "")
    ELSE SplitFrom(Tail(s), sep, acc \o Head(s))

\* path.split(os.sep)
Split(s) == SplitFrom(s, "/", "")

RECURSIVE Strip(_)
\* str.strip, for blanks
Strip(s) ==
    IF Len(s) = 0 THEN s
    ELSE IF Head(s) = " " THEN Strip(Tail(s))
    ELSE IF SubSeq(s, Len(s), Len(s)) = " " THEN Strip(SubSeq(s, 1, Len(s) - 1))
    ELSE s

\* x in list
InSeq(x, seq) == \E i \in 1..Len(seq) : seq[i] = x

RECURSIVE LastSep(_, _)
\* index of the last "/" among the first n characters of s, 0 if there is none
LastSep(s, n) ==
    IF n = 0 THEN 0
    ELSE IF SubSeq(s, n, n) = "/" THEN n
    ELSE LastSep(s, n - 1)

\* os.path.dirname, computed on the characters
DirNameOf(p) ==
    LET i == LastSep(p, Len(p))
    IN  IF i = 0 THEN "" ELSE IF i = 1 THEN "/" ELSE SubSeq(p, 1, i - 1)

\* DirNameOf on the nodes, computed once
DirNames == [p \in Nodes |-> DirNameOf(p)]

\* os.path.dirname
DirName(p) == IF p \in Nodes THEN DirNames[p] ELSE DirNameOf(p)

\* os.path.relpath(path, start) for a path at or below start, computed on the
\* characters
RelPathOf(p, start) ==
    IF p = start THEN "."
    ELSE SubSeq(p, Len(start) + 2, Len(p))

\* RelPathOf on the nodes, from the home directory, computed once
RelPathsFromHome == [p \in Nodes |-> RelPathOf(p, Home)]

\* os.path.relpath(path, start)
RelPath(p, start) ==
    IF p \in Nodes /\ start = Home THEN RelPathsFromHome[p] ELSE RelPathOf(p, start)

\* os.path.join(base, rel) for a relative rel
Join(base, rel) == base \o "/" \o rel

RECURSIVE ResolveParts(_, _)
\* Path.resolve() without symbolic links: drop "" and "." parts, let ".." drop
\* the part before it
ResolveParts(parts, acc) ==
    IF Len(parts) = 0 THEN acc
    ELSE IF Head(parts) \in {"", "."} THEN ResolveParts(Tail(parts), acc)
    ELSE IF Head(parts) = ".."
         THEN ResolveParts(Tail(parts),
                           IF Len(acc) = 0 THEN acc ELSE SubSeq(acc, 1, Len(acc) - 1))
    ELSE ResolveParts(Tail(parts), Append(acc, Head(parts)))

RECURSIVE JoinParts(_)
\* "/" + "/".join(parts)
JoinParts(parts) ==
    IF Len(parts) = 0 THEN ""
    ELSE "/" \o Head(parts) \o JoinParts(Tail(parts))

\* str(Path(path).resolve()), computed on the characters
ResolvePath(path) ==
    LET parts == ResolveParts(Split(path), << >>)
    IN  IF Len(parts) = 0 THEN "/" ELSE JoinParts(parts)

\* ResolvePath on the nodes, computed once
ResolvedNodes == [p \in Nodes |-> ResolvePath(p)]

\* SecureWorkspace._normalize_path
NormalizePath(path) == IF path \in Nodes THEN ResolvedNodes[path] ELSE ResolvePath(path)

(* ---------------------------- the filesystem --------------------------- *)
\* a node of the home directory: nothing, a directory, or a regular file with
\* its content and permission ("rw" read and write, "no" neither: chmod 000)
NoNode == [kind |-> "none", content |-> 0, mode |-> "rw"]
DirNode == [kind |-> "dir", content |-> 0, mode |-> "rw"]
FileNode(c, m) == [kind |-> "file", content |-> c, mode |-> m]

Modes == {"rw", "no"}
Contents == 1..MaxContent

\* open(path, 'rb') succeeds
Readable(n) == n.kind = "file" /\ n.mode = "rw"
\* open(path, 'wb') succeeds on an existing file
Writable(n) == n.kind = "file" /\ n.mode = "rw"

\* os.path.exists
Exists(f, path) == path \in DOMAIN f /\ f[path].kind # "none"
\* os.path.isfile
IsFile(f, path) == path \in DOMAIN f /\ f[path].kind = "file"
\* os.path.isdir; the home directory itself always exists
IsDir(f, path) == path = Home \/ (path \in DOMAIN f /\ f[path].kind = "dir")

\* the order in which the listings are walked
PathOrder == <<Notes, Docs, DocsB, Build, BuildOut>>

\* the members of a set of paths, as a sequence in walking order
SeqOf(S) == SelectSeq(PathOrder, LAMBDA p : p \in S)

\* stdout of `find ~ -type f`: every regular file
FindFiles(f) == {p \in Nodes : IsFile(f, p)}

(* ------------------------------ PathFilter ----------------------------- *)
\* one pattern of EXCLUDED_PATTERNS rejects the normalized path
PatternRejects(pattern, path) ==
    LET path_lower == Lower(path)
        parts == Split(path_lower)
    IN  IF Contains(pattern, "*")
        THEN \E i \in 1..Len(parts) :
                StartsWith(parts[i], ".") /\ EndsWith(parts[i], "Cache")
        ELSE \/ InSeq(pattern, parts)
             \/ StartsWith(pattern, ".") /\ Contains(path_lower, Lower(pattern))

\* the part of _should_track_file that reads only the path string
PathAccepted(p) ==
    LET path == NormalizePath(p)
    IN  /\ \A i \in 1..Len(EXCLUDED_PATHS) : ~StartsWith(path, EXCLUDED_PATHS[i])
        /\ \A i \in 1..Len(EXCLUDED_PATTERNS) : ~PatternRejects(EXCLUDED_PATTERNS[i], path)
        /\ StartsWith(path, Home)

\* PathAccepted on the paths of the model, computed once
AcceptedNodes == {p \in Nodes : PathAccepted(p)}

\* SecureWorkspace._should_track_file
ShouldTrackFile(f, p) == p \in AcceptedNodes /\ IsFile(f, NormalizePath(p))

(* ---------------------------- fingerprints ----------------------------- *)
\* the value '' that _calculate_file_hash returns when the file cannot be read
EMPTY == << >>
\* hashlib.sha256(content).hexdigest(): one digest per content
Sha256(c) == <<"sha256", c>>

\* SecureWorkspace._calculate_file_hash
CalculateFileHash(f, path) ==
    IF path \in DOMAIN f /\ Readable(f[path]) THEN Sha256(f[path].content) ELSE EMPTY

(* ------------------------------ the state ------------------------------ *)
VARIABLES
    fs,                      \* the home directory: node -> NoNode, DirNode or FileNode
    stateFile,               \* what STATE_FILE holds
    scratchDirs,             \* the directories made by tempfile.mkdtemp() that exist
    scratchFiles,            \* the files below them: path -> [content, mode]
    pc,                      \* "idle", or the place stop() has reached
    backup_path,             \* self.backup_path
    original_state,          \* self.original_state
    current_files,           \* stop(): current_files
    new_files_list,          \* stop(): new_files_list
    modified_files_list,     \* stop(): modified_files_list
    deleted_files_list,      \* stop(): deleted_files_list
    preserved_files,         \* stop(): preserved_files
    new_files_removed,       \* stop(): counter
    modified_files_reverted, \* stop(): counter
    deleted_files_restored,  \* stop(): counter
    asking,                  \* _ask_for_preservation: files, change_type, preserved
    asked,                   \* stop(): the _ask_for_preservation calls made so far,
                             \*   each with its files and its change_type
    returned,                \* stop(): preserved_new, preserved_modified and
                             \*   preserved_deleted, the sets those calls returned
    summary,                 \* stop(): the messages of "Summary of changes"
    backupFault,             \* history: what the backup store refused in the last
                             \*   start() call
    filter_path,             \* _should_track_file on its own: the argument path
    filter_isfile,           \*   whether a regular file is there
    filter_result,           \*   what the call returned, None before it
    lastOp,                  \* the last call made: "none", "start" or "stop"
    result,                  \* its outcome: "running", "True", "False" or "raised"
    raised,                  \* the exception that ended it, "" if none
    turns,                   \* number of edits and start() calls so far
    beginFs,                 \* history: the home directory when start() last saved a state
    stopFs,                  \* history: the home directory when stop() was last called
    callState,               \* history: STATE_FILE and the scratch area when the
                             \*   last call was made
    findOutcome,             \* history: what find did in the last call, "none" if
                             \*   it was not run
    lastStop,                \* history: "cleared" or "kept" if a stop() has returned
                             \*   True, having removed STATE_FILE or not, and neither
                             \*   start() nor a foreign write of STATE_FILE followed
    second,                  \* history: the value of lastStop when stop() was called
    removed,                 \* history: paths on which os.remove succeeded in stop()
    reverted,                \* history: paths a modified-file copy2 overwrote in stop()
    restored,                \* history: paths a deleted-file copy2 recreated in stop()
    tried,                   \* history: the cleanup calls stop() has made
    doomed                   \* history: new unpreserved files of the last stop() that
                             \*   returned, not written again since

vars == << fs, stateFile, scratchDirs, scratchFiles, pc, backup_path,
           original_state, current_files, new_files_list, modified_files_list,
           deleted_files_list, preserved_files, new_files_removed,
           modified_files_reverted, deleted_files_restored, asking, asked, returned, summary, lastOp,
           result, raised, turns, beginFs, stopFs, callState, findOutcome,
           lastStop, second, removed, reverted, restored, tried, doomed,
           backupFault, filter_path, filter_isfile, filter_result >>

\* the variables of a _should_track_file call looked at on its own
filterVars == << filter_path, filter_isfile, filter_result >>

\* the variables of one stop() call
stopLocals == << current_files, new_files_list, modified_files_list,
                 deleted_files_list, preserved_files, new_files_removed,
                 modified_files_reverted, deleted_files_restored, asking, asked, returned >>

\* history of what stop() did to the files
applyHistory == << removed, reverted, restored >>

\* the storage outside the home directory
storage == << stateFile, scratchDirs, scratchFiles >>

(* ----------------------- values of the Python side --------------------- *)
\* Python's None, where a string is expected
None == "<None>"

\* an empty dict
EmptyDict == [p \in {} |-> EMPTY]

\* d[k] = v
DictPut(d, k, v) == [q \in (DOMAIN d) \cup {k} |-> IF q = k THEN v ELSE d[q]]

\* STATE_FILE does not exist
AbsentFile == [kind |-> "absent"]
\* STATE_FILE holds text that json.load rejects
GarbageFile == [kind |-> "text"]
\* what json.dump writes for an object
JsonFile(obj) == [kind |-> "json", obj |-> obj]

\* the object start() dumps
SavedState(bp, os) == [backup_path |-> bp, original_state |-> os]

Digits == <<"0", "1", "2", "3", "4", "5", "6", "7", "8", "9">>
\* the names tempfile.mkdtemp() gives its directories
TmpName(i) == "/tmp/tmp" \o Digits[i + 1]
\* tempfile.mkdtemp(): a name that no directory has; of the names that are
\* free, which one is returned makes no difference to the program, and the
\* first is taken
Mkdtemp(dirs) ==
    TmpName(CHOOSE i \in 1..9 : /\ TmpName(i) \notin dirs
                                /\ \A j \in 1..(i - 1) : TmpName(j) \in dirs)

\* what the backup store does to one start() call: nothing, or it refuses
\* (no space, no permission) the directory that os.makedirs has to create for
\* the backup of `path`; a copy that fails is the copy of an unreadable file
NoFault == [kind |-> "none", path |-> ""]
BackupFaults == {NoFault} \cup {[kind |-> "makedirs", path |-> p] : p \in AcceptedNodes}

\* no _ask_for_preservation call is running
NotAsking == [files |-> << >>, change_type |-> "", preserved |-> {}]

\* no cleanup call made yet
NothingTried == [remove_state |-> FALSE, removed_state |-> FALSE, rmtree |-> FALSE]

\* STATE_FILE and the scratch area as they are
StorageNow == [stateFile |-> stateFile, scratchDirs |-> scratchDirs,
               scratchFiles |-> scratchFiles]

\* no call to remember
NoCallState == [stateFile |-> AbsentFile, scratchDirs |-> {}, scratchFiles |-> EmptyDict]

(* -------------------------------- Init --------------------------------- *)
\* a home with a top-level file, a file in a directory and a build output
HomeA == [p \in Nodes |->
            CASE p = Notes -> FileNode(1, "rw")
              [] p = Docs -> DirNode
              [] p = DocsB -> FileNode(1, "rw")
              [] p = Build -> DirNode
              [] p = BuildOut -> NoNode]

\* a home where "docs" is a regular file, the only one
HomeB == [p \in Nodes |->
            CASE p = Notes -> NoNode
              [] p = Docs -> FileNode(1, "rw")
              [] p = DocsB -> NoNode
              [] p = Build -> DirNode
              [] p = BuildOut -> NoNode]

InitialHomes == {HomeA, HomeB}

\* no session: nothing saved, no call made
NoSession ==
    /\ stateFile = AbsentFile
    /\ scratchDirs = {}
    /\ scratchFiles = EmptyDict
    /\ pc = "idle"
    /\ backup_path = None
    /\ original_state = EmptyDict
    /\ current_files = {}
    /\ new_files_list = << >>
    /\ modified_files_list = << >>
    /\ deleted_files_list = << >>
    /\ preserved_files = {}
    /\ new_files_removed = 0
    /\ modified_files_reverted = 0
    /\ deleted_files_restored = 0
    /\ asking = NotAsking
    /\ asked = << >>
    /\ returned = << >>
    /\ summary = {}
    /\ lastOp = "none"
    /\ result = "True"
    /\ raised = ""
    /\ turns = 0
    /\ beginFs = fs
    /\ stopFs = fs
    /\ callState = NoCallState
    /\ findOutcome = "none"
    /\ lastStop = "none"
    /\ second = "none"
    /\ removed = {}
    /\ reverted = {}
    /\ restored = {}
    /\ tried = NothingTried
    /\ doomed = {}
    /\ backupFault = NoFault

Init ==
    /\ fs \in InitialHomes
    /\ NoSession
    /\ filter_path = Home
    /\ filter_isfile = FALSE
    /\ filter_result = None

(* --------------------------- the user's edits -------------------------- *)
\* the nodes the user writes, removes and changes the permission of
FileNodes == {Notes, Docs, DocsB, BuildOut}

\* path is q or lies below q
AtOrBelow(path, q) == path = q \/ StartsWith(path, q \o "/")

\* the user may act: no call is running and the budget of turns is not used up
UserTurn == pc = "idle" /\ turns < MaxTurns

\* a new process: SecureWorkspace.__init__
FreshInstance ==
    /\ backup_path' = None
    /\ original_state' = EmptyDict
    /\ current_files' = {}
    /\ new_files_list' = << >>
    /\ modified_files_list' = << >>
    /\ deleted_files_list' = << >>
    /\ preserved_files' = {}
    /\ new_files_removed' = 0
    /\ modified_files_reverted' = 0
    /\ deleted_files_restored' = 0
    /\ asking' = NotAsking
    /\ asked' = << >>
    /\ returned' = << >>
    /\ summary' = {}
    /\ UNCHANGED filterVars

\* the history of a stop() call, before it has done anything
FreshHistory ==
    /\ removed' = {}
    /\ reverted' = {}
    /\ restored' = {}
    /\ tried' = NothingTried

\* what every edit does besides its change: the process of the last call has
\* exited by now, and what it held is gone
EditFrame ==
    /\ turns' = turns + 1
    /\ lastOp' = "edit"
    /\ result' = "True"
    /\ raised' = ""
    /\ FreshInstance
    /\ FreshHistory
    /\ backupFault' = NoFault
    /\ stopFs' = beginFs
    /\ callState' = NoCallState
    /\ findOutcome' = "none"
    /\ second' = "none"
    /\ UNCHANGED << pc, beginFs >>

\* the user creates a file or overwrites the content of a writable one
UserWrite(p, c) ==
    /\ UserTurn
    /\ IsDir(fs, DirName(p))
    /\ \/ ~Exists(fs, p)
       \/ IsFile(fs, p) /\ Writable(fs[p]) /\ fs[p].content # c
    /\ fs' = [fs EXCEPT ![p] = FileNode(c, IF IsFile(fs, p) THEN fs[p].mode ELSE "rw")]
    /\ doomed' = doomed \ {p}
    /\ EditFrame
    /\ UNCHANGED << storage, lastStop >>

\* the user removes a file, or a directory with everything in it
UserRemove(p) ==
    /\ UserTurn
    /\ Exists(fs, p)
    /\ fs' = [q \in Nodes |-> IF AtOrBelow(q, p) THEN NoNode ELSE fs[q]]
    /\ EditFrame
    /\ UNCHANGED << storage, doomed, lastStop >>

\* the user makes the directory docs
UserMkdir(p) ==
    /\ UserTurn
    /\ ~Exists(fs, p)
    /\ IsDir(fs, DirName(p))
    /\ fs' = [fs EXCEPT ![p] = DirNode]
    /\ EditFrame
    /\ UNCHANGED << storage, doomed, lastStop >>

\* the user changes the permission of a file
UserChmod(p, m) ==
    /\ UserTurn
    /\ IsFile(fs, p)
    /\ fs[p].mode # m
    /\ fs' = [fs EXCEPT ![p].mode = m]
    /\ EditFrame
    /\ UNCHANGED << storage, doomed, lastStop >>

\* what STATE_FILE can be made to hold from outside: nothing, text that is not
\* JSON, or JSON objects without one of the two keys
ForeignStateFiles ==
    { AbsentFile, GarbageFile,
      JsonFile([backup_path |-> "/tmp/tmp0"]),
      JsonFile([original_state |-> EmptyDict]) }

\* STATE_FILE is removed or overwritten from outside
UserTamper(content) ==
    /\ UserTurn
    /\ stateFile # content
    /\ stateFile' = content
    /\ lastStop' = "none"
    /\ EditFrame
    /\ UNCHANGED << fs, scratchDirs, scratchFiles, doomed >>

(* -------------------------------- start() ------------------------------ *)
RECURSIVE MakeDirs(_, _)
\* os.makedirs(path, exist_ok=True) below /tmp: the directories that exist afterwards
MakeDirs(dirs, path) ==
    IF path \in dirs \/ path \in {"", "/", "/tmp"} THEN dirs
    ELSE MakeDirs(dirs, DirName(path)) \cup {path}

\* SecureWorkspace._backup_file; acc carries backup_path and the scratch area,
\* and raised, TRUE once os.makedirs has raised OSError
BackupFile(f, filepath, fault, acc) ==
    LET a1 == IF acc.backup_path = None
              THEN [acc EXCEPT !.backup_path = Mkdtemp(acc.scratchDirs),
                               !.scratchDirs = @ \cup {Mkdtemp(acc.scratchDirs)}]
              ELSE acc
        rel_path == RelPath(filepath, Home)
        backup_file == Join(a1.backup_path, rel_path)
        a2 == [a1 EXCEPT !.scratchDirs = MakeDirs(@, DirName(backup_file))]
    IN  IF /\ fault = [kind |-> "makedirs", path |-> filepath]
           /\ DirName(backup_file) \notin a1.scratchDirs
        THEN [a1 EXCEPT !.raised = TRUE]
        ELSE IF Readable(f[filepath])
        THEN [a2 EXCEPT !.scratchFiles =
                 DictPut(@, backup_file,
                         [content |-> f[filepath].content, mode |-> f[filepath].mode])]
        ELSE a2

RECURSIVE TrackFiles(_, _, _, _)
\* the loop of start() over the listed files, left when _backup_file raises
TrackFiles(f, files, fault, acc) ==
    IF Len(files) = 0 \/ acc.raised THEN acc
    ELSE IF ShouldTrackFile(f, Head(files))
    THEN LET norm_path == NormalizePath(Head(files))
             a1 == [acc EXCEPT !.original_state =
                       DictPut(@, norm_path, CalculateFileHash(f, norm_path))]
             a2 == BackupFile(f, norm_path, fault, a1)
         IN  TrackFiles(f, Tail(files), fault,
                        IF a2.raised THEN a2 ELSE [a2 EXCEPT !.tracked_files = @ + 1])
    ELSE TrackFiles(f, Tail(files), fault, acc)

\* the fault has something to refuse in a start() on f with this find outcome:
\* the file is tracked, and its backup goes into a directory still to be made
FaultTakesPlace(f, outcome, fault) ==
    \/ fault = NoFault
    \/ /\ outcome = "ok"
       /\ ShouldTrackFile(f, fault.path)
       /\ DirName(fault.path) # Home

\* what subprocess.run(['find', ...]) can do: list every regular file ("ok"),
\* run and report a failure with nothing on stdout ("failed"), or not be
\* executable at all, which raises OSError ("norun")
FindOutcomes == {"ok", "failed", "norun"}

\* result.stdout.splitlines() for the outcomes that return
FindOutput(f, outcome) == IF outcome = "ok" THEN FindFiles(f) ELSE {}

\* SecureWorkspace.start, when find cannot be executed: OSError is not caught
StartRaises ==
    /\ pc = "idle"
    /\ UserTurn
    /\ turns' = turns + 1
    /\ lastOp' = "start"
    /\ result' = "raised"
    /\ raised' = "OSError"
    /\ FreshInstance
    /\ FreshHistory
    /\ backupFault' = NoFault
    /\ stopFs' = beginFs
    /\ callState' = StorageNow
    /\ findOutcome' = "norun"
    /\ lastStop' = "none"
    /\ second' = "none"
    /\ UNCHANGED << fs, storage, pc, beginFs, doomed >>

\* SecureWorkspace.start, when find returns: the state is saved and True
\* returned, unless os.makedirs raised in _backup_file, which nothing catches
Start(outcome, fault) ==
    /\ pc = "idle"
    /\ turns < MaxTurns
    /\ outcome \in {"ok", "failed"}
    /\ FaultTakesPlace(fs, outcome, fault)
    /\ LET files == SeqOf(FindOutput(fs, outcome))
           acc == TrackFiles(fs, files, fault,
                             [backup_path |-> None, original_state |-> EmptyDict,
                              scratchDirs |-> scratchDirs, scratchFiles |-> scratchFiles,
                              tracked_files |-> 0, raised |-> FALSE])
       IN  /\ backup_path' = acc.backup_path
           /\ original_state' = acc.original_state
           /\ scratchDirs' = acc.scratchDirs
           /\ scratchFiles' = acc.scratchFiles
           /\ stateFile' = IF acc.raised THEN stateFile
                           ELSE JsonFile(SavedState(acc.backup_path, acc.original_state))
           /\ result' = IF acc.raised THEN "raised" ELSE "True"
           /\ raised' = IF acc.raised THEN "OSError" ELSE ""
           /\ beginFs' = IF acc.raised THEN beginFs ELSE fs
    /\ backupFault' = fault
    /\ turns' = turns + 1
    /\ lastOp' = "start"
    /\ current_files' = {}
    /\ new_files_list' = << >>
    /\ modified_files_list' = << >>
    /\ deleted_files_list' = << >>
    /\ preserved_files' = {}
    /\ new_files_removed' = 0
    /\ modified_files_reverted' = 0
    /\ deleted_files_restored' = 0
    /\ asking' = NotAsking
    /\ asked' = << >>
    /\ returned' = << >>
    /\ summary' = {}
    /\ UNCHANGED filterVars
    /\ FreshHistory
    /\ stopFs' = fs
    /\ callState' = StorageNow
    /\ findOutcome' = outcome
    /\ lastStop' = "none"
    /\ second' = "none"
    /\ UNCHANGED << fs, pc, doomed >>

(* -------------------------- stop(): Load phase -------------------------- *)
\* what every first step of stop() does: a new process, and the history of the call
StopEnter ==
    /\ pc = "idle"
    /\ lastOp' = "stop"
    /\ stopFs' = fs
    /\ callState' = StorageNow
    /\ findOutcome' = "none"
    /\ second' = lastStop
    /\ FreshHistory
    /\ backupFault' = NoFault
    /\ doomed' = {}
    /\ current_files' = {}
    /\ new_files_list' = << >>
    /\ modified_files_list' = << >>
    /\ deleted_files_list' = << >>
    /\ preserved_files' = {}
    /\ new_files_removed' = 0
    /\ modified_files_reverted' = 0
    /\ deleted_files_restored' = 0
    /\ asking' = NotAsking
    /\ asked' = << >>
    /\ returned' = << >>
    /\ summary' = {}
    /\ UNCHANGED filterVars
    /\ UNCHANGED << fs, storage, turns, beginFs, lastStop >>

\* json.load accepts the file
Parses(file) == file.kind = "json"

\* stop(): open() or json.load fails, the except clause returns False
StopLoadFails ==
    /\ StopEnter
    /\ ~Parses(stateFile)
    /\ backup_path' = None
    /\ original_state' = EmptyDict
    /\ result' = "False"
    /\ raised' = ""
    /\ pc' = "idle"

\* stop(): the file parses but a key is missing; KeyError is not caught
StopLoadRaises ==
    /\ StopEnter
    /\ Parses(stateFile)
    /\ {"backup_path", "original_state"} \ DOMAIN stateFile.obj # {}
    /\ backup_path' = IF "backup_path" \in DOMAIN stateFile.obj
                      THEN stateFile.obj.backup_path ELSE None
    /\ original_state' = EmptyDict
    /\ result' = "raised"
    /\ raised' = "KeyError"
    /\ pc' = "idle"

\* stop(): the saved state is loaded
StopLoad ==
    /\ StopEnter
    /\ Parses(stateFile)
    /\ {"backup_path", "original_state"} \subseteq DOMAIN stateFile.obj
    /\ backup_path' = stateFile.obj.backup_path
    /\ original_state' = stateFile.obj.original_state
    /\ result' = "running"
    /\ raised' = ""
    /\ pc' = "classify"

(* ------------------------ stop(): Classify phase ----------------------- *)
\* what a step inside stop() leaves alone
StepFrame == UNCHANGED << backup_path, original_state, lastOp, turns,
                          beginFs, stopFs, callState, second, doomed, summary,
                          backupFault, filter_path, filter_isfile, filter_result >>

\* the relative paths of a sequence of paths
RelPaths(paths) == [i \in 1..Len(paths) |-> RelPath(paths[i], Home)]

\* first loop of stop(): the snapshot paths that do not exist
DeletedOf(f, os) ==
    RelPaths(SelectSeq(SeqOf(DOMAIN os), LAMBDA p : ~Exists(f, p)))

\* second loop of stop(), new branch
NewOf(f, os, files) ==
    RelPaths(SelectSeq(SeqOf(files),
                       LAMBDA p : /\ ShouldTrackFile(f, p)
                                  /\ NormalizePath(p) \notin DOMAIN os))

\* the test `current_hash != self.original_state[norm_path]`
HashDiffers(f, os, norm_path) == CalculateFileHash(f, norm_path) # os[norm_path]

\* second loop of stop(), modified branch
ModifiedOf(f, os, files) ==
    RelPaths(SelectSeq(SeqOf(files),
                       LAMBDA p : /\ ShouldTrackFile(f, p)
                                  /\ NormalizePath(p) \in DOMAIN os
                                  /\ HashDiffers(f, os, NormalizePath(p))))

\* stop(): find cannot be executed; OSError is not caught
StopFindRaises ==
    /\ pc = "classify"
    /\ result' = "raised"
    /\ raised' = "OSError"
    /\ findOutcome' = "norun"
    /\ pc' = "idle"
    /\ StepFrame
    /\ UNCHANGED << fs, storage, stopLocals, applyHistory, tried, lastStop >>

Categories == <<"new", "modified", "deleted">>

\* the place of a category in the order the questions are asked
CategoryIndex(category) ==
    CASE category = "new" -> 1 [] category = "modified" -> 2 [] category = "deleted" -> 3

\* the chain written with `elif`: only the first category whose list is not
\* empty is asked about
NextAsked_Elif(i, lists) ==
    IF i = 0 /\ \E j \in 1..3 : Len(lists[j]) > 0
    THEN CHOOSE j \in 1..3 : Len(lists[j]) > 0 /\ \A k \in 1..(j - 1) : Len(lists[k]) = 0
    ELSE 0

\* the first category after the i-th whose list is not empty, 0 if there is none:
\* the chain of `if <category>_files_list:` in stop()
NextAsked(i, lists) ==
    IF \E j \in (i + 1)..3 : Len(lists[j]) > 0
    THEN CHOOSE j \in (i + 1)..3 :
            /\ Len(lists[j]) > 0
            /\ \A k \in (i + 1)..(j - 1) : Len(lists[k]) = 0
    ELSE 0

\* _ask_for_preservation is entered for the j-th category with its list, which
\* it shows; with j = 0 no question is left
EnterAsk(j, lists) ==
    IF j = 0 THEN NotAsking
    ELSE [files |-> lists[j], change_type |-> Categories[j], preserved |-> {}]

\* the calls made once the question for the j-th category is entered
AskedAfter(calls, j, lists) ==
    IF j = 0 THEN calls
    ELSE Append(calls, [files |-> lists[j], change_type |-> Categories[j]])

\* with no question left stop() goes straight to the cleanup
PlaceOfAsk_NoApply(j) == IF j = 0 THEN "cleanup" ELSE "prompt"

\* the place of stop() when the next question is for the j-th category
PlaceOfAsk(j) == IF j = 0 THEN "apply" ELSE "prompt"

\* stop(): find returns and the three lists are collected; the first question,
\* if there is one, is shown
StopClassify(outcome) ==
    /\ pc = "classify"
    /\ outcome \in {"ok", "failed"}
    /\ current_files' = FindOutput(fs, outcome)
    /\ deleted_files_list' = DeletedOf(fs, original_state)
    /\ new_files_list' = NewOf(fs, original_state, current_files')
    /\ modified_files_list' = ModifiedOf(fs, original_state, current_files')
    /\ LET lists == <<new_files_list', modified_files_list', deleted_files_list'>>
       IN  /\ asking' = EnterAsk(NextAsked(0, lists), lists)
           /\ asked' = AskedAfter(asked, NextAsked(0, lists), lists)
           /\ returned' = returned
           /\ pc' = PlaceOfAsk(NextAsked(0, lists))
    /\ findOutcome' = outcome
    /\ StepFrame
    /\ UNCHANGED << fs, storage, preserved_files, new_files_removed,
                    modified_files_reverted, deleted_files_restored,
                    result, raised, applyHistory, tried, lastStop >>

(* ------------------------- stop(): Decide phase ------------------------ *)
\* the value of a decimal digit, -1 for any other character
DigitValue(c) ==
    CASE c = "0" -> 0 [] c = "1" -> 1 [] c = "2" -> 2 [] c = "3" -> 3 [] c = "4" -> 4
      [] c = "5" -> 5 [] c = "6" -> 6 [] c = "7" -> 7 [] c = "8" -> 8 [] c = "9" -> 9
      [] OTHER -> -1

RECURSIVE DigitsValue(_, _)
\* the number written by a string of digits after acc, -1 if a character is no digit
DigitsValue(s, acc) ==
    IF Len(s) = 0 THEN acc
    ELSE IF DigitValue(Head(s)) < 0 THEN -1
    ELSE DigitsValue(Tail(s), 10 * acc + DigitValue(Head(s)))

\* int(x.strip()): ok is FALSE where Python raises ValueError
ParseInt(x) ==
    LET t == Strip(x)
        signed == Len(t) > 0 /\ Head(t) \in {"+", "-"}
        body == IF signed THEN Tail(t) ELSE t
        v == IF Len(body) = 0 THEN -1 ELSE DigitsValue(body, 0)
    IN  [ok |-> v >= 0,
         value |-> IF signed /\ Head(t) = "-" THEN 0 - v ELSE v]

\* [int(x.strip()) for x in choice.split(',')]: ok is FALSE if any item raises
ParseSelections(choice) ==
    LET items == SplitFrom(choice, ",", "")
    IN  [ok |-> \A i \in 1..Len(items) : ParseInt(items[i]).ok,
         nums |-> [i \in 1..Len(items) |-> ParseInt(items[i]).value]]

\* click.prompt(..., default='none'): an empty line gives the default
ClickPrompt(line) == IF line = "" THEN "none" ELSE line

\* the lines the user types at a prompt
PromptLines == {"all", "none", "q", "", " ALL", "0,2", "-1,1", "1,x"}

\* click.prompt(...).lower().strip()
ChoiceOf(line) == Strip(Lower(ClickPrompt(line)))

\* ChoiceOf on the lines of the model, computed once
ChoicesRead == [line \in PromptLines |-> ChoiceOf(line)]

\* ParseSelections on the choices of the model, computed once
SelectionsRead == [c \in {ChoicesRead[line] : line \in PromptLines} |-> ParseSelections(c)]

\* the list `selections` for a choice
Selections(choice) ==
    IF choice \in DOMAIN SelectionsRead THEN SelectionsRead[choice]
    ELSE ParseSelections(choice)

\* the loop ended by a well-formed list of numbers as well
IsTerminator_OrSelection(choice) ==
    choice \in {"q", "all", "none"} \/ Selections(choice).ok

\* the inputs that end the loop of _ask_for_preservation
IsTerminator(choice) == choice \in {"q", "all", "none"}

\* a number out of range makes the whole selection void
SelectedBy_AllInRange(files, nums) ==
    IF \A j \in 1..Len(nums) : 1 <= nums[j] /\ nums[j] <= Len(files)
    THEN {files[nums[i]] : i \in 1..Len(nums)}
    ELSE {}

\* the paths a parsed selection adds: the in-range numbers
SelectedBy(files, nums) ==
    {files[nums[i]] : i \in {j \in 1..Len(nums) : 1 <= nums[j] /\ nums[j] <= Len(files)}}

\* preserved after one pass of the loop of _ask_for_preservation
PreservedAfter(files, preserved, choice) ==
    IF choice = "all" THEN preserved \cup {files[i] : i \in 1..Len(files)}
    ELSE IF choice \in {"q", "none"} THEN preserved
    ELSE IF Selections(choice).ok
         THEN preserved \cup SelectedBy(files, Selections(choice).nums)
    ELSE preserved

\* what the Decide phase leaves alone
DecideFrame ==
    /\ StepFrame
    /\ UNCHANGED << fs, storage, current_files, new_files_list, modified_files_list,
                    deleted_files_list, new_files_removed, modified_files_reverted,
                    deleted_files_restored, result, raised, applyHistory, tried,
                    findOutcome, lastStop >>

\* one pass of the loop of _ask_for_preservation on a line that does not end it
PromptAgain(line) ==
    /\ pc = "prompt"
    /\ ~IsTerminator(ChoicesRead[line])
    /\ asking' = [asking EXCEPT
                     !.preserved = PreservedAfter(asking.files, @, ChoicesRead[line])]
    /\ UNCHANGED << pc, preserved_files, asked, returned >>
    /\ DecideFrame

\* the pass that ends the loop: the call returns, stop() adds what it returned
\* and shows the next question, if there is one
PromptReturn(line) ==
    LET lists == <<new_files_list, modified_files_list, deleted_files_list>>
        j == NextAsked(CategoryIndex(asking.change_type), lists)
    IN  /\ pc = "prompt"
        /\ IsTerminator(ChoicesRead[line])
        /\ returned' = Append(returned,
                              PreservedAfter(asking.files, asking.preserved,
                                             ChoicesRead[line]))
        /\ preserved_files' = preserved_files \cup returned'[Len(returned')]
        /\ asking' = EnterAsk(j, lists)
        /\ asked' = AskedAfter(asked, j, lists)
        /\ pc' = PlaceOfAsk(j)
        /\ DecideFrame

(* ------------------------- stop(): Apply phase ------------------------- *)
RECURSIVE MakeHomeDirs(_, _)
\* os.makedirs(path, exist_ok=True) in the home directory: ok is FALSE where it
\* raises FileExistsError because a regular file has the name of a directory
MakeHomeDirs(f, path) ==
    IF IsDir(f, path) THEN [ok |-> TRUE, fs |-> f]
    ELSE IF Exists(f, path) \/ path \notin Nodes THEN [ok |-> FALSE, fs |-> f]
    ELSE LET up == MakeHomeDirs(f, DirName(path))
         IN  IF up.ok THEN [ok |-> TRUE, fs |-> [up.fs EXCEPT ![path] = DirNode]]
             ELSE up

\* shutil.copy2(backup_file, path): ok is FALSE where it raises OSError, because
\* the backup entry is missing or the target cannot be opened for writing
CopyBack(f, files, backup_file, path) ==
    IF /\ backup_file \in DOMAIN files
       /\ IsDir(f, DirName(path))
       /\ (~Exists(f, path) \/ Writable(f[path]))
    THEN [ok |-> TRUE,
          fs |-> [f EXCEPT ![path] = FileNode(files[backup_file].content,
                                              files[backup_file].mode)]]
    ELSE [ok |-> FALSE, fs |-> f]

\* the test left out: every path is handled as if it were not preserved
NotPreserved_Ignored(rel_path, preserved) == TRUE

\* the test written `not preserved_files`: one preserved path keeps every path
\* from being handled
NotPreserved_NoneAtAll(rel_path, preserved) == preserved = {}

\* the test `rel_path not in preserved_files`
NotPreserved(rel_path, preserved) == rel_path \notin preserved

\* one pass of the loop "Handle deleted files"; acc carries fs, the counter and
\* the paths restored
RestoreOne(original_path, bp, files, preserved, acc) ==
    IF Exists(acc.fs, original_path) THEN acc
    ELSE LET rel_path == RelPath(original_path, Home)
             made == MakeHomeDirs(acc.fs, DirName(original_path))
             copied == CopyBack(made.fs, files, Join(bp, rel_path), original_path)
         IN  IF ~NotPreserved(rel_path, preserved) THEN acc
             ELSE IF ~made.ok THEN acc
             ELSE IF ~copied.ok THEN [acc EXCEPT !.fs = made.fs]
             ELSE [fs |-> copied.fs, count |-> acc.count + 1,
                   done |-> acc.done \cup {original_path}]

RECURSIVE RestoreDeleted(_, _, _, _, _)
\* the loop "Handle deleted files" over the snapshot
RestoreDeleted(paths, bp, files, preserved, acc) ==
    IF Len(paths) = 0 THEN acc
    ELSE RestoreDeleted(Tail(paths), bp, files, preserved,
                        RestoreOne(Head(paths), bp, files, preserved, acc))

\* the pass written without the test of _should_track_file: every file that find
\* lists and the snapshot does not have is handled as a new one
HandleOne_Unfiltered(filepath, bp, os, files, preserved, acc) ==
    LET norm_path == NormalizePath(filepath)
        rel_path == RelPath(norm_path, Home)
        copied == CopyBack(acc.fs, files, Join(bp, rel_path), norm_path)
    IN  IF norm_path \notin DOMAIN os
        THEN IF NotPreserved(rel_path, preserved)
             THEN [acc EXCEPT !.fs = [acc.fs EXCEPT ![norm_path] = NoNode],
                              !.removed_count = @ + 1,
                              !.removed = @ \cup {norm_path}]
             ELSE acc
        ELSE IF HashDiffers(acc.fs, os, norm_path)
                  /\ NotPreserved(rel_path, preserved) /\ copied.ok
        THEN [acc EXCEPT !.fs = copied.fs,
                         !.reverted_count = @ + 1,
                         !.reverted = @ \cup {norm_path}]
        ELSE acc

\* one pass of the loop "Handle new and modified files"; acc carries fs, the two
\* counters and the paths removed and reverted
HandleOne(filepath, bp, os, files, preserved, acc) ==
    LET norm_path == NormalizePath(filepath)
        rel_path == RelPath(norm_path, Home)
        copied == CopyBack(acc.fs, files, Join(bp, rel_path), norm_path)
    IN  IF ~ShouldTrackFile(acc.fs, filepath) THEN acc
        ELSE IF norm_path \notin DOMAIN os
        THEN IF NotPreserved(rel_path, preserved)
             THEN [acc EXCEPT !.fs = [acc.fs EXCEPT ![norm_path] = NoNode],
                              !.removed_count = @ + 1,
                              !.removed = @ \cup {norm_path}]
             ELSE acc
        ELSE IF HashDiffers(acc.fs, os, norm_path)
                  /\ NotPreserved(rel_path, preserved) /\ copied.ok
        THEN [acc EXCEPT !.fs = copied.fs,
                         !.reverted_count = @ + 1,
                         !.reverted = @ \cup {norm_path}]
        ELSE acc

RECURSIVE HandleFiles(_, _, _, _, _, _)
\* the loop "Handle new and modified files" over current_files
HandleFiles(paths, bp, os, files, preserved, acc) ==
    IF Len(paths) = 0 THEN acc
    ELSE HandleFiles(Tail(paths), bp, os, files, preserved,
                     HandleOne(Head(paths), bp, os, files, preserved, acc))

\* stop(): the loop "Handle deleted files", then the loop "Handle new and
\* modified files"
Apply ==
    /\ pc = "apply"
    /\ LET del == RestoreDeleted(SeqOf(DOMAIN original_state), backup_path,
                                 scratchFiles, preserved_files,
                                 [fs |-> fs, count |-> 0, done |-> {}])
           acc == HandleFiles(SeqOf(current_files), backup_path, original_state,
                              scratchFiles, preserved_files,
                              [fs |-> del.fs, removed_count |-> 0, removed |-> {},
                               reverted_count |-> 0, reverted |-> {}])
       IN  /\ fs' = acc.fs
           /\ deleted_files_restored' = del.count
           /\ restored' = del.done
           /\ new_files_removed' = acc.removed_count
           /\ modified_files_reverted' = acc.reverted_count
           /\ removed' = acc.removed
           /\ reverted' = acc.reverted
    /\ pc' = "cleanup"
    /\ StepFrame
    /\ UNCHANGED << storage, current_files, new_files_list, modified_files_list,
                    deleted_files_list, preserved_files, asking, asked, returned, result,
                    raised, tried, findOutcome, lastStop >>

(* --------------------------- stop(): Clean up -------------------------- *)
\* what the cleanup leaves alone
CleanupFrame ==
    /\ StepFrame
    /\ UNCHANGED << fs, stopLocals, applyHistory, findOutcome >>

\* what shutil.rmtree(path) leaves of a set of directories or a dict of files
WithoutTree(S, path) == {q \in S : ~AtOrBelow(q, path)}

\* what STATE_FILE holds after an os.remove(STATE_FILE) that succeeds
RemoveStateFile(file) == AbsentFile

\* the new files of the call that were not preserved
NewUnpreserved ==
    {p \in AcceptedNodes : /\ ~IsFile(beginFs, p)
                           /\ IsFile(stopFs, p)
                           /\ RelPath(p, Home) \notin preserved_files}

\* the messages that follow "Summary of changes"
SummaryOf(preserved, removed_count, reverted_count, restored_count) ==
    {m \in {"Preserved files", "Removed new files", "Reverted modified files",
            "Restored deleted files", "No changes detected - workspace is clean"} :
        \/ m = "Preserved files" /\ preserved # {}
        \/ m = "Removed new files" /\ removed_count > 0
        \/ m = "Reverted modified files" /\ reverted_count > 0
        \/ m = "Restored deleted files" /\ restored_count > 0
        \/ /\ m = "No changes detected - workspace is clean"
           /\ preserved = {}
           /\ removed_count = 0
           /\ reverted_count = 0
           /\ restored_count = 0}

\* stop() prints the summary and returns True
ReturnTrue ==
    /\ summary' = SummaryOf(preserved_files, new_files_removed,
                            modified_files_reverted, deleted_files_restored)
    /\ result' = "True"
    /\ raised' = ""
    /\ pc' = "idle"
    /\ doomed' = NewUnpreserved

\* os.remove(STATE_FILE) raises OSError: the except clause is entered and
\* shutil.rmtree is not called
CleanupRemoveFails ==
    /\ pc = "cleanup"
    /\ tried' = [tried EXCEPT !.remove_state = TRUE]
    /\ lastStop' = "kept"
    /\ ReturnTrue
    /\ UNCHANGED << stateFile, scratchDirs, scratchFiles >>
    /\ UNCHANGED << backup_path, original_state, lastOp, turns, beginFs,
                    stopFs, callState, second, backupFault, filter_path,
                    filter_isfile, filter_result >>
    /\ UNCHANGED << fs, stopLocals, applyHistory, findOutcome >>

\* os.remove(STATE_FILE) succeeds, then shutil.rmtree(self.backup_path) removes
\* the directory, or raises OSError because there is none
Cleanup ==
    /\ pc = "cleanup"
    /\ backup_path # None
    /\ tried' = [remove_state |-> TRUE, removed_state |-> TRUE, rmtree |-> TRUE]
    /\ stateFile' = RemoveStateFile(stateFile)
    /\ scratchDirs' = WithoutTree(scratchDirs, backup_path)
    /\ scratchFiles' = [q \in WithoutTree(DOMAIN scratchFiles, backup_path)
                           |-> scratchFiles[q]]
    /\ lastStop' = "cleared"
    /\ ReturnTrue
    /\ UNCHANGED << backup_path, original_state, lastOp, turns, beginFs,
                    stopFs, callState, second, backupFault, filter_path,
                    filter_isfile, filter_result >>
    /\ UNCHANGED << fs, stopLocals, applyHistory, findOutcome >>

\* os.remove(STATE_FILE) succeeds, then shutil.rmtree(None) raises TypeError,
\* which is not caught
CleanupRaises ==
    /\ pc = "cleanup"
    /\ backup_path = None
    /\ tried' = [remove_state |-> TRUE, removed_state |-> TRUE, rmtree |-> TRUE]
    /\ stateFile' = RemoveStateFile(stateFile)
    /\ result' = "raised"
    /\ raised' = "TypeError"
    /\ pc' = "idle"
    /\ UNCHANGED << scratchDirs, scratchFiles, lastStop >>
    /\ CleanupFrame

(* ------------------------------ the system ----------------------------- *)
Next ==
    \/ \E p \in FileNodes, c \in Contents : UserWrite(p, c)
    \/ \E p \in FileNodes : UserRemove(p)
    \/ UserMkdir(Docs)
    \/ \E p \in AcceptedNodes, m \in Modes : UserChmod(p, m)
    \/ \E content \in ForeignStateFiles : UserTamper(content)
    \/ StartRaises
    \/ \E outcome \in FindOutcomes, fault \in BackupFaults : Start(outcome, fault)
    \/ StopLoadFails
    \/ StopLoadRaises
    \/ StopLoad
    \/ StopFindRaises
    \/ \E outcome \in FindOutcomes : StopClassify(outcome)
    \/ \E line \in PromptLines : PromptAgain(line)
    \/ \E line \in PromptLines : PromptReturn(line)
    \/ Apply
    \/ CleanupRemoveFails
    \/ Cleanup
    \/ CleanupRaises

Spec == Init /\ [][Next]_vars

(* ----------------------- PathFilter on its own ------------------------- *)
\* the directory names and file names that the paths given to the filter are
\* made of
FilterDirs ==
    {"src", "build", "Build", "node_modules", "Cache", "cache", "CacheStorage",
     ".git", "my.GIT.old", "SingletonSocket"}
FilterFiles ==
    {"a.txt", "Thumbs.db", "thumbs.db", "x.PYC", ".DS_Store", "dist", "Cache",
     "lib.pyo.bak", "npm-debug.log", "SingletonSocket"}

\* the paths given to the filter: one file in one directory of the home
FilterPaths == {Join(Join(Home, d), f) : d \in FilterDirs, f \in FilterFiles}

\* a path is given to _should_track_file, with or without a regular file there
FilterInit ==
    /\ fs = HomeA
    /\ NoSession
    /\ filter_path \in FilterPaths
    /\ filter_isfile \in BOOLEAN
    /\ filter_result = None

\* SecureWorkspace._should_track_file returns
FilterApply ==
    /\ filter_result = None
    /\ filter_result' = IF PathAccepted(filter_path) /\ filter_isfile
                         THEN "True" ELSE "False"
    /\ UNCHANGED << filter_path, filter_isfile >>
    /\ UNCHANGED << fs, storage, pc, backup_path, original_state, stopLocals,
                    summary, lastOp, result, raised, turns, beginFs, stopFs,
                    callState, findOutcome, lastStop, second, applyHistory, tried,
                    doomed, backupFault >>

FilterNext == FilterApply

FilterSpec == FilterInit /\ [][FilterNext]_vars

(* ------------------------------ properties ----------------------------- *)
\* stop() has just returned True
StopReturned == pc = "idle" /\ lastOp = "stop" /\ result = "True"

\* the saved state has the structure stop() reads
ValidState(file) ==
    Parses(file) /\ {"backup_path", "original_state"} \subseteq DOMAIN file.obj

\* the call in progress, or just ended, has changed nothing outside the process
NothingChanged == fs = stopFs /\ StorageNow = callState

\* path was a regular file at start() and at stop(), with another content
Altered(p) ==
    IsFile(beginFs, p) /\ IsFile(stopFs, p) /\ stopFs[p].content # beginFs[p].content

\* path was a regular file at start() and was none when stop() was called
Deleted(p) == IsFile(beginFs, p) /\ ~IsFile(stopFs, p)

\* path is a regular file again with the content it had at start()
BackAsAtStart(p) == IsFile(fs, p) /\ fs[p].content = beginFs[p].content

\* C1: when stop() has returned, every tracked file whose content was altered
\* after start() and that was not preserved has the content it had at start(),
\* and the fingerprint of that content is the one in the snapshot.
C1_ModifiedReverted ==
    StopReturned =>
        \A p \in DOMAIN original_state :
            (Altered(p) /\ RelPath(p, Home) \notin preserved_files)
                => (BackAsAtStart(p) /\ Sha256(fs[p].content) = original_state[p])

\* C2: when stop() has returned, every tracked file that was deleted after
\* start() and that was not preserved exists again at its path, below a
\* directory, with the content it had at start(), whatever else has changed.
C2_DeletedRestored ==
    StopReturned =>
        \A p \in DOMAIN original_state :
            (Deleted(p) /\ RelPath(p, Home) \notin preserved_files)
                => (BackAsAtStart(p) /\ IsDir(fs, DirName(p)))

\* C3: when stop() has returned, no file created after start() and not
\* preserved exists, and a later start() does not put one in its snapshot.
C3_NewRemoved ==
    /\ StopReturned => \A p \in NewUnpreserved : ~Exists(fs, p)
    /\ (lastOp = "start" /\ result = "True") => doomed \cap DOMAIN original_state = {}

\* C4: throughout stop(), a preserved path is exactly as it was when stop() was
\* called, whichever list it was chosen from, and it is not among the paths
\* removed, reverted or restored, which are the paths the three counters count.
C4_PreservedUntouched ==
    lastOp = "stop" =>
        /\ \A p \in Nodes :
              RelPath(p, Home) \in preserved_files
                  => (fs[p] = stopFs[p] /\ p \notin removed \cup reverted \cup restored)
        /\ pc = "idle" =>
              /\ new_files_removed = Cardinality(removed)
              /\ modified_files_reverted = Cardinality(reverted)
              /\ deleted_files_restored = Cardinality(restored)

\* C4 witness: stop() has returned having preserved a path and having removed,
\* reverted or restored another one.
C4_Witness ==
    /\ StopReturned
    /\ preserved_files # {}
    /\ removed \cup reverted \cup restored # {}

\* C5: if the home directory is at stop() as it was at start(), the three lists
\* that stop() collects are empty.
C5_NoChangeNoLists ==
    (lastOp = "stop" /\ findOutcome \in {"ok", "failed"} /\ stopFs = beginFs)
        => /\ new_files_list = << >>
           /\ modified_files_list = << >>
           /\ deleted_files_list = << >>

\* C6: a stop() called after a stop() that returned True, with no
\* start() in between, returns False at once and changes nothing.
C6_SecondStopFails ==
    (lastOp = "stop" /\ second # "none")
        => (pc = "idle" /\ result = "False" /\ NothingChanged)

\* C7: a stop() called when STATE_FILE is absent, is not JSON, or is JSON
\* without the two keys returns False at once and changes nothing.
C7_BadStateRefused ==
    (lastOp = "stop" /\ ~ValidState(callState.stateFile))
        => (pc = "idle" /\ result = "False" /\ NothingChanged)

\* C8: a start() whose find failed does not succeed (an uncaught exception is
\* counted as a failure here), and leaves STATE_FILE and the scratch area as
\* they were.
C8_StartFindFailureInert ==
    (lastOp = "start" /\ findOutcome \in {"failed", "norun"})
        => (result # "True" /\ StorageNow = callState)

\* C9: a stop() whose find failed does not succeed (an uncaught exception is
\* counted as a failure here), and changes nothing: no file of the home
\* directory, and neither STATE_FILE nor the backup.
C9_StopFindFailureInert ==
    (lastOp = "stop" /\ pc = "idle" /\ findOutcome \in {"failed", "norun"})
        => (result # "True" /\ NothingChanged)

\* C10: a stop() that loaded the state and listed the files returns True having
\* called both os.remove(STATE_FILE) and shutil.rmtree, and STATE_FILE is gone.
C10_CleanupComplete ==
    (lastOp = "stop" /\ pc = "idle" /\ ValidState(callState.stateFile)
        /\ findOutcome \in {"ok", "failed"})
        => /\ result = "True"
           /\ tried.remove_state
           /\ tried.rmtree
           /\ stateFile = AbsentFile

\* C11: in a stop() that has collected its lists, every tracked file that find
\* listed and that cannot be read (its hash is EMPTY) is in modified_files_list,
\* whether the snapshot holds a digest or EMPTY for it.
C11_UnreadableIsModified ==
    (lastOp = "stop" /\ findOutcome \in {"ok", "failed"}) =>
        \A p \in DOMAIN original_state \cap current_files :
            CalculateFileHash(stopFs, p) = EMPTY
                => InSeq(RelPath(p, Home), modified_files_list)

\* the entries of a list
ItemsOf(list) == {list[i] : i \in 1..Len(list)}

\* no entry of the list is there twice
NoDuplicates(list) == Cardinality(ItemsOf(list)) = Len(list)

\* stop() has collected its three lists
Classified == lastOp = "stop" /\ findOutcome \in {"ok", "failed"}

\* C12: in a stop() that has collected its lists, no list has an entry twice, no
\* path is in two lists, new_files_list holds the files of the home directory
\* that the filter accepts and the snapshot does not have, modified_files_list
\* the files of the snapshot whose hash differs from the recorded one,
\* deleted_files_list the snapshot paths that do not exist.
C12_ListsAreTheirDefinitions ==
    Classified =>
        /\ NoDuplicates(new_files_list)
        /\ NoDuplicates(modified_files_list)
        /\ NoDuplicates(deleted_files_list)
        /\ ItemsOf(new_files_list) \cap ItemsOf(modified_files_list) = {}
        /\ ItemsOf(new_files_list) \cap ItemsOf(deleted_files_list) = {}
        /\ ItemsOf(modified_files_list) \cap ItemsOf(deleted_files_list) = {}
        /\ ItemsOf(new_files_list) =
              {RelPath(p, Home) : p \in {q \in FindFiles(stopFs) :
                    /\ ShouldTrackFile(stopFs, q)
                    /\ q \notin DOMAIN original_state}}
        /\ ItemsOf(modified_files_list) =
              {RelPath(p, Home) : p \in {q \in FindFiles(stopFs) \cap DOMAIN original_state :
                    CalculateFileHash(stopFs, q) # original_state[q]}}
        /\ ItemsOf(deleted_files_list) =
              {RelPath(p, Home) : p \in {q \in DOMAIN original_state : ~Exists(stopFs, q)}}

\* the message that the summary gives when it found nothing to report
NoChangesDetected == "No changes detected - workspace is clean"

\* the Decide phase of the stop() call is over
Decided == Classified /\ pc \in {"apply", "cleanup", "idle"}

C14_ReturnsOnlyOnTerminator ==
    /\ [](pc = "prompt" =>
             \A line \in PromptLines :
                 IF ChoicesRead[line] \in {"all", "none", "q"}
                 THEN ENABLED PromptReturn(line)
                 ELSE ENABLED PromptAgain(line))
    /\ [][pc = "prompt" =>
             \A line \in PromptLines :
                 (PromptAgain(line) \/ PromptReturn(line)) =>
                     IF ChoicesRead[line] \in {"all", "none", "q"}
                     THEN pc' = "apply" \/ Len(asked') = Len(asked) + 1
                     ELSE /\ pc' = "prompt"
                          /\ asked' = asked
                          /\ returned' = returned
                          /\ asking'.files = asking.files
                          /\ asking'.change_type = asking.change_type]_vars

\* C14 witness: a call has read a well-formed list of numbers, has kept the
\* selection, and is waiting at its prompt again
C14_Witness == pc = "prompt" /\ asking.preserved # {}

\* what the two loops of the Apply phase do to the paths, from the state the
\* phase starts in, were `preserved` the set of preserved paths
AppliedWith(preserved) ==
    LET del == RestoreDeleted(SeqOf(DOMAIN original_state), backup_path,
                              scratchFiles, preserved,
                              [fs |-> fs, count |-> 0, done |-> {}])
        acc == HandleFiles(SeqOf(current_files), backup_path, original_state,
                           scratchFiles, preserved,
                           [fs |-> del.fs, removed_count |-> 0, removed |-> {},
                            reverted_count |-> 0, reverted |-> {}])
    IN  [removed |-> acc.removed, reverted |-> acc.reverted, restored |-> del.done]

\* the action applied to a path: remove, revert, restore, or none of them
ActionOn(applied, path) ==
    {a \in {"remove", "revert", "restore"} :
        \/ a = "remove" /\ path \in applied.removed
        \/ a = "revert" /\ path \in applied.reverted
        \/ a = "restore" /\ path \in applied.restored}

\* C15: when the Apply phase of stop() begins, for every preserved path P the
\* action that the phase applies to any other path Q is the one it would apply
\* had P not been preserved; and every preserved path is an entry of one list
\* only, so that a choice made in one category is never applied to an entry of
\* another.
C15_PreservationIndependent ==
    pc = "apply" =>
        /\ \A P \in preserved_files :
              \A Q \in Nodes :
                  RelPath(Q, Home) # P =>
                      ActionOn(AppliedWith(preserved_files), Q)
                          = ActionOn(AppliedWith(preserved_files \ {P}), Q)
        /\ \A P \in preserved_files :
              Cardinality({j \in 1..3 :
                  P \in ItemsOf(<<new_files_list, modified_files_list,
                                  deleted_files_list>>[j])}) = 1

\* C15 witness: the Apply phase of a stop() with a preserved path is over and has
\* removed, reverted or restored another path
C15_Witness ==
    /\ pc = "cleanup"
    /\ preserved_files # {}
    /\ removed \cup reverted \cup restored # {}

\* C16: a path with a component equal to a name of EXCLUDED_PATTERNS, or that
\* contains, compared without regard to case, a name of EXCLUDED_PATTERNS that
\* begins with a dot, is rejected by _should_track_file.
C16_ExcludedNamesRejected ==
    filter_result # None =>
        LET parts == Split(filter_path)
            named == \E i \in 1..Len(EXCLUDED_PATTERNS) : InSeq(EXCLUDED_PATTERNS[i], parts)
            dotted == \E i \in 1..Len(EXCLUDED_PATTERNS) :
                         /\ StartsWith(EXCLUDED_PATTERNS[i], ".")
                         /\ Contains(Lower(filter_path), Lower(EXCLUDED_PATTERNS[i]))
        IN  (named \/ dotted) => filter_result = "False"

\* C17: in every _ask_for_preservation call the selection starts empty and stays
\* within the presented files; a pass that reads a list of numbers that all
\* parse adds exactly the files at those of the numbers that lie in
\* 1..len(files), whatever the other numbers are; a pass that reads anything
\* else that does not end the call adds nothing; the call returns every
\* presented file if it ends with 'all' and the selection made so far
\* otherwise, and stop() adds what it returned to preserved_files.
C17_ReturnedSelection ==
    [][/\ (pc # "prompt" /\ pc' = "prompt") => asking'.preserved = {}
       /\ pc = "prompt" =>
             /\ asking.preserved \subseteq ItemsOf(asking.files)
             /\ \A line \in PromptLines :
                   LET chosen == ChoicesRead[line]
                       files == asking.files
                       parsed == Selections(chosen)
                       picked ==
                           IF chosen \notin {"all", "none", "q"} /\ parsed.ok
                           THEN {files[n] : n \in {m \in 1..Len(files) :
                                    \E i \in 1..Len(parsed.nums) : parsed.nums[i] = m}}
                           ELSE {}
                   IN  /\ chosen \notin {"all", "none", "q"} =>
                             PreservedAfter(files, asking.preserved, chosen)
                                 = asking.preserved \cup picked
                       /\ PromptAgain(line) =>
                             asking'.preserved = asking.preserved \cup picked
                       /\ PromptReturn(line) =>
                             /\ returned' = Append(returned,
                                    IF chosen = "all" THEN ItemsOf(files)
                                    ELSE asking.preserved)
                             /\ returned'[Len(returned')] \subseteq ItemsOf(files)
                             /\ preserved_files'
                                    = preserved_files \cup returned'[Len(returned')]
                             /\ pc' = "prompt" => asking'.preserved = {}]_vars

\* C17 witness: a call has returned a selection made by numbers that is not
\* the whole list it presented
C17_Witness ==
    \E i \in 1..Len(returned) :
        /\ returned[i] # {}
        /\ returned[i] # ItemsOf(asked[i].files)

\* C18: a start() whose find worked returns True with the state saved, every
\* accepted file recorded in the snapshot with its hash, and every readable
\* accepted file backed up, save the one whose backup the store refused,
\* whether the refusal met os.makedirs or the copy.
C18_BackupFailureSwallowed ==
    (lastOp = "start" /\ pc = "idle" /\ findOutcome = "ok") =>
        /\ result = "True"
        /\ stateFile = JsonFile(SavedState(backup_path, original_state))
        /\ DOMAIN original_state = {p \in Nodes : ShouldTrackFile(fs, p)}
        /\ \A p \in DOMAIN original_state :
              /\ original_state[p] = CalculateFileHash(fs, p)
              /\ (Readable(fs[p]) /\ p # backupFault.path) =>
                    Join(backup_path, RelPath(p, Home)) \in DOMAIN scratchFiles

\* the steps of a stop() call from one place to the next: Load, Classify,
\* Decide, Apply, cleanup, and the places where the call ends early
PhaseOrder ==
    {<<"idle", "classify">>, <<"idle", "idle">>,
     <<"classify", "prompt">>, <<"classify", "apply">>, <<"classify", "idle">>,
     <<"prompt", "prompt">>, <<"prompt", "apply">>,
     <<"apply", "cleanup">>,
     <<"cleanup", "idle">>}

\* C19: a stop() call goes through Load, Classify, Decide, Apply and the cleanup
\* in that order and skips none; the three lists do not change once a question
\* has been asked; until the last question has been answered no file of the
\* home directory has been removed, overwritten or restored; and until the
\* Apply phase is over STATE_FILE and the backup are as they were when stop()
\* was called.
C19_PhasesInOrder ==
    /\ []((lastOp = "stop" /\ pc \in {"classify", "prompt", "apply"}) =>
             /\ fs = stopFs
             /\ removed \cup reverted \cup restored = {}
             /\ new_files_removed + modified_files_reverted + deleted_files_restored = 0
             /\ StorageNow = callState
             /\ tried = NothingTried)
    /\ []((lastOp = "stop" /\ pc = "cleanup") => StorageNow = callState)
    /\ [][lastOp' = "stop" =>
             /\ <<pc, pc'>> \in PhaseOrder
             /\ (asked # << >> /\ asked' # << >>) =>
                   <<new_files_list, modified_files_list, deleted_files_list>>'
                       = <<new_files_list, modified_files_list, deleted_files_list>>
             /\ fs' # fs => pc = "apply"
             /\ StorageNow' # StorageNow => pc = "cleanup"]_vars

\* C19 witness: a stop() has asked a question, has then removed, reverted or
\* restored a file, and has then deleted STATE_FILE and the backup
C19_Witness ==
    /\ StopReturned
    /\ asked # << >>
    /\ removed \cup reverted \cup restored # {}
    /\ tried.rmtree
    /\ StorageNow # callState

\* C20: when stop() has returned with "No changes detected - workspace is clean"
\* in its summary, its three lists are empty.
C20_CleanOnlyIfNoChanges ==
    (StopReturned /\ NoChangesDetected \in summary) =>
        /\ new_files_list = << >>
        /\ modified_files_list = << >>
        /\ deleted_files_list = << >>

\* the paths whose entry in a list of stop() was not preserved
Unpreserved(list, preserved) ==
    {p \in Nodes : RelPath(p, Home) \in ItemsOf(list) \ preserved}

\* stop() has finished its Apply phase
Applied == Classified /\ pc \in {"cleanup", "idle"}

\* C21: once the Apply phase of stop() is over, every path it removed is an
\* unpreserved entry of new_files_list, every path it overwrote an unpreserved
\* entry of modified_files_list, every path it recreated an unpreserved entry of
\* deleted_files_list, and every other path that was or is a regular file,
\* whether the filter accepts it or not, is as it was when stop() was called.
C21_ApplyWithinChangeSet ==
    Applied =>
        /\ removed \subseteq Unpreserved(new_files_list, preserved_files)
        /\ reverted \subseteq Unpreserved(modified_files_list, preserved_files)
        /\ restored \subseteq Unpreserved(deleted_files_list, preserved_files)
        /\ \A p \in Nodes \ (removed \cup reverted \cup restored) :
              (IsFile(stopFs, p) \/ IsFile(fs, p)) => fs[p] = stopFs[p]

\* C21 witness: the Apply phase is over and has removed, reverted or restored a
\* path, while a file that the filter rejects and a file of the snapshot that it
\* did not act on are there as they were when stop() was called.
C21_Witness ==
    /\ Applied
    /\ removed \cup reverted \cup restored # {}
    /\ IsFile(fs, BuildOut)
    /\ \E p \in DOMAIN original_state \ (reverted \cup restored) : IsFile(fs, p)

\* C22: in a stop() that has collected its lists, no path of the snapshot is an
\* entry of both modified_files_list and deleted_files_list, and one that is an
\* entry of neither is a regular file whose hash is the recorded one; a path of
\* the snapshot where a directory now stands is an entry of one of the two.
C22_SnapshotClassified ==
    Classified =>
        \A p \in DOMAIN original_state :
            LET rel_path == RelPath(p, Home)
                modified == InSeq(rel_path, modified_files_list)
                deleted == InSeq(rel_path, deleted_files_list)
            IN  /\ ~(modified /\ deleted)
                /\ (~modified /\ ~deleted) =>
                      /\ IsFile(stopFs, p)
                      /\ CalculateFileHash(stopFs, p) = original_state[p]

====
